---- MODULE Spec2Model ----
(***************************************************************************)
(* Model of plot_solar_sys_objects (src/solar_system_plot.py): one chart   *)
(* build drawn step by step on a matplotlib axis.                          *)
(*                                                                         *)
(* Units.  Longitudes are whole degrees (ecliptic frame) or whole hours    *)
(* (equatorial frame); latitudes are whole degrees.  Magnitudes and the    *)
(* limiting magnitude are counted in half magnitudes, so the 1.5 of the    *)
(* marker-size formula is 3 and a marker size is counted in quarters.      *)
(* dist() is compared through its square: sqrt is strictly increasing, so  *)
(* dist(a,b) > dist(c,d) exactly when DistSq(a,b) > DistSq(c,d).           *)
(* Time is counted in days relative to the observation time t.             *)
(***************************************************************************)
EXTENDS Integers, Sequences, FiniteSets

VARIABLES
    ecliptic_coords,     \* argument: TRUE = ecliptic frame, FALSE = RA/dec
    limiting_magnitude,  \* argument, in half magnitudes
    stars,               \* catalog: HIP id -> [magnitude, lon_deg, lat_deg]
    edges,               \* constellation edges: sequence of <<star1, star2>>
    eph,                 \* ephemeris: trajectory, coverage and bodies it holds
    pc,                  \* position in the function body
    bright_stars,        \* the True entries of the mask
    marker_size,         \* marker size of each masked star
    lines_xy_mod,        \* the segment list built by the loop of line 103
    branches,            \* which branch each loop iteration took
    emitted,             \* the segments each loop iteration appended
    ax                   \* what has been drawn on the axis

vars == <<ecliptic_coords, limiting_magnitude, stars, edges, eph, pc,
          bright_stars, marker_size, lines_xy_mod, branches, emitted, ax>>

inputs == <<ecliptic_coords, limiting_magnitude, stars, edges, eph>>

---------------------------------------------------------------------------
(* Bounds of the explored inputs *)

NumStars == 3      \* catalog size in the magnitude-focused runs
MaxMag == 5        \* largest magnitude (half magnitudes) tried
MaxLim == 2        \* largest limiting magnitude (half magnitudes) tried
LonSpan == 10      \* ecliptic longitudes within LonSpan of 0, 180 and 359
MaxRate == 2       \* largest daily longitude motion of a body
RefHalf == 3       \* half-width of the reference-curve sampling window

(* Program constants *)

SizeOffset == 3    \* 1.5, in half magnitudes
Delta == 7         \* days between the two observations of a motion arrow

LatSet == {-5, 0, 10}

x_max == IF ecliptic_coords THEN 360 ELSE 24

LonSet(ec) ==
    IF ec THEN (0 .. LonSpan) \cup ((180 - LonSpan) .. (180 + LonSpan))
               \cup ((359 - LonSpan) .. 359)
          ELSE 0 .. 23

objs == << "sun", "moon", "mercury", "venus", "mars", "jupiter_barycenter",
           "saturn_barycenter", "uranus_barycenter", "neptune_barycenter" >>

Bodies == { objs[i] : i \in DOMAIN objs }

ArrowBodies == { "mercury", "venus", "sun" }

---------------------------------------------------------------------------
(* Geometry *)

Shift(p, dx) == << p[1] + dx, p[2] >>

DistSq(a, b) == (a[1] - b[1]) * (a[1] - b[1]) + (a[2] - b[2]) * (a[2] - b[2])

\* dist(a, b) > dist(c, d)
dist_gt(a, b, c, d) == DistSq(a, b) > DistSq(c, d)

StarXY(id) == << stars[id].lon_deg, stars[id].lat_deg >>

\* lines_xy[k]: the two end points of edge k
lines_xy(k) == << StarXY(edges[k][1]), StarXY(edges[k][2]) >>

BranchGe(line) ==
    IF ~ dist_gt(Shift(line[1], x_max), line[2], line[1], line[2]) THEN "right"
    ELSE IF dist_gt(line[1], line[2], line[1], Shift(line[2], x_max)) THEN "left"
    ELSE "plain"

BranchGe2(line) ==
    IF dist_gt(line[1], line[2], Shift(line[1], x_max), line[2]) THEN "right"
    ELSE IF ~ dist_gt(line[1], Shift(line[2], x_max), line[1], line[2]) THEN "left"
    ELSE "plain"

\* the if / elif / else of lines 104-110
Branch(line) ==
    IF dist_gt(line[1], line[2], Shift(line[1], x_max), line[2]) THEN "right"
    ELSE IF dist_gt(line[1], line[2], line[1], Shift(line[2], x_max)) THEN "left"
    ELSE "plain"

SegmentSwapped(line) ==
    CASE Branch(line) = "right" ->
            << << Shift(line[1], -x_max), line[2] >>,
               << line[1], Shift(line[2], x_max) >> >>
      [] Branch(line) = "left" ->
            << << Shift(line[1], x_max), line[2] >>,
               << line[1], Shift(line[2], -x_max) >> >>
      [] OTHER -> << << line[1], line[2] >> >>

SegmentOneSided(line) ==
    CASE Branch(line) = "right" ->
            << << Shift(line[1], x_max), line[2] >>,
               << line[1], line[2] >> >>
      [] Branch(line) = "left" ->
            << << Shift(line[1], -x_max), line[2] >>,
               << line[1], line[2] >> >>
      [] OTHER -> << << line[1], line[2] >> >>

\* what one iteration of the loop appends to lines_xy_mod
Segment(line) ==
    CASE Branch(line) = "right" ->
            << << Shift(line[1], x_max), line[2] >>,
               << line[1], Shift(line[2], -x_max) >> >>
      [] Branch(line) = "left" ->
            << << Shift(line[1], -x_max), line[2] >>,
               << line[1], Shift(line[2], x_max) >> >>
      [] OTHER -> << << line[1], line[2] >> >>

---------------------------------------------------------------------------
(* Brightness mask and marker sizes *)

StarIds == DOMAIN stars

edges_star1 == { edges[k][1] : k \in DOMAIN edges }

edges_star2 == { edges[k][2] : k \in DOMAIN edges }

BrightStarsStar1Only ==
    { s \in StarIds : stars[s].magnitude <= limiting_magnitude } \cup edges_star1

BrightStars ==
    { s \in StarIds : stars[s].magnitude <= limiting_magnitude }
        \cup edges_star1 \cup edges_star2

MarkerSize(m) ==
    (SizeOffset + limiting_magnitude - m) * (SizeOffset + limiting_magnitude - m)

---------------------------------------------------------------------------
(* Ephemeris: position of a body `ofst` days after t, in the active frame *)

Covered(ofst) == ofst <= eph.hi

observe(body, ofst) ==
    << (eph.lon0 + eph.rate * ofst) % x_max, eph.lat0 + eph.dlat * ofst >>

RefOffsets == [ i \in 1 .. 2 * RefHalf |-> i - 1 - RefHalf ]

\* the list `line` of lines 139-145
SunPath == [ i \in 1 .. 2 * RefHalf |-> observe("sun", RefOffsets[i]) ]

Insert(p, s) ==
    LET n == Cardinality({ i \in DOMAIN s : s[i][1] <= p[1] })
    IN  [ i \in 1 .. Len(s) + 1 |->
            IF i <= n THEN s[i] ELSE IF i = n + 1 THEN p ELSE s[i - 1] ]

Unsorted(s) == s

RECURSIVE InsertionSort(_)
InsertionSort(s) ==
    IF s = << >> THEN << >>
    ELSE Insert(s[Len(s)], InsertionSort(SubSeq(s, 1, Len(s) - 1)))

\* line[argsort(line[:, 0])]
SortByX(s) == InsertionSort(s)

---------------------------------------------------------------------------
(* The axis *)

NoAx == [ scatter |-> << >>, collection |-> << >>, added |-> FALSE,
          refline |-> << >>, markers |-> << >>, texts |-> << >>,
          arrows |-> << >>, xlabel |-> "", ylabel |-> "", xticks |-> << >> ]

Marker(obj, p) == [ name |-> obj, xy |-> p ]

Arrow(obj, p, p1) == [ name |-> obj, xy |-> p, xytext |-> p1 ]

\* the loop of lines 153-190 from body i on; a failing lookup or position
\* query stops it with what was drawn so far
RECURSIVE BodiesFrom(_, _)
BodiesFrom(i, a) ==
    IF i > Len(objs) THEN [ ok |-> TRUE, ax |-> a ]
    ELSE IF objs[i] \notin eph.keys \/ ~ Covered(0) THEN [ ok |-> FALSE, ax |-> a ]
    ELSE
      LET p == observe(objs[i], 0)
          a1 == [ a EXCEPT !.markers = Append(@, Marker(objs[i], p)),
                           !.texts = Append(@, Marker(objs[i], p)) ]
      IN  IF ~ Covered(Delta) THEN [ ok |-> FALSE, ax |-> a1 ]
          ELSE
            LET q == observe(objs[i], Delta)
                lon_delta == q[1] - p[1]
                lat_delta == q[2] - p[2]
                p1 == << p[1] + lon_delta, p[2] + lat_delta >>
                a2 == IF objs[i] \in ArrowBodies
                        THEN [ a1 EXCEPT !.arrows = Append(@, Arrow(objs[i], p, p1)) ]
                        ELSE a1
            IN  BodiesFrom(i + 1, a2)

---------------------------------------------------------------------------
(* Initial states: the arguments and the data a build reads *)

Fresh ==
    /\ pc = "stars"
    /\ bright_stars = {}
    /\ marker_size = << >>
    /\ lines_xy_mod = << >>
    /\ branches = << >>
    /\ emitted = << >>
    /\ ax = NoAx

Star(m, lon, lat) == [ magnitude |-> m, lon_deg |-> lon, lat_deg |-> lat ]

CalmEph == [ lon0 |-> 1, rate |-> 1, lat0 |-> 0, dlat |-> 1,
             hi |-> Delta + RefHalf, keys |-> Bodies ]

\* a small catalog, with ephemerides that end too early or lack a body
Init ==
    /\ ecliptic_coords \in BOOLEAN
    /\ limiting_magnitude \in 0 .. MaxLim
    /\ stars \in { [ i \in 1 .. 3 |-> Star(m + i, 2 * i, i) ] : m \in 0 .. 2 }
    /\ edges \in { << >>, << <<1, 2>>, <<2, 3>> >> }
    /\ eph \in { [ CalmEph EXCEPT !.hi = h, !.keys = ks ] :
                   h \in { -1, 0, Delta + RefHalf },
                   ks \in { Bodies, Bodies \ { "mars" } } }
    /\ Fresh

\* one edge between two stars anywhere on the chart
InitSeg ==
    /\ ecliptic_coords \in BOOLEAN
    /\ limiting_magnitude = MaxLim
    /\ stars \in { [ i \in 1 .. 2 |->
                       IF i = 1 THEN Star(0, a, la) ELSE Star(0, b, lb) ] :
                   a \in LonSet(ecliptic_coords), b \in LonSet(ecliptic_coords),
                   la \in LatSet, lb \in LatSet }
    /\ edges = << <<1, 2>> >>
    /\ eph = CalmEph
    /\ Fresh

\* any magnitudes, any limiting magnitude, at most one edge
InitStars ==
    /\ ecliptic_coords = TRUE
    /\ limiting_magnitude \in 0 .. MaxLim
    /\ stars \in { [ i \in 1 .. NumStars |-> Star(m[i], 2 * i, i) ] :
                   m \in [ 1 .. NumStars -> 0 .. MaxMag ] }
    /\ edges \in { << >> } \cup
                 { << e >> : e \in { d \in (1 .. NumStars) \X (1 .. NumStars) :
                                       d[1] # d[2] } }
    /\ eph = CalmEph
    /\ Fresh

\* any trajectory of the bodies
InitEph ==
    /\ ecliptic_coords \in BOOLEAN
    /\ limiting_magnitude = MaxLim
    /\ stars = [ i \in 1 .. 2 |-> Star(i, 2 * i, i) ]
    /\ edges = << <<1, 2>> >>
    /\ eph \in { [ CalmEph EXCEPT !.lon0 = l, !.rate = r, !.lat0 = la, !.dlat = d ] :
                   l \in LonSet(ecliptic_coords), r \in (-MaxRate) .. MaxRate,
                   la \in LatSet, d \in { -1, 0, 1 } }
    /\ Fresh

---------------------------------------------------------------------------
(* The steps of a build *)

\* lines 57-80: mask, marker sizes, star positions
ComputeStars ==
    /\ pc = "stars"
    /\ IF Covered(0)
         THEN /\ bright_stars' = BrightStars
              /\ marker_size' = [ s \in BrightStars |-> MarkerSize(stars[s].magnitude) ]
              /\ pc' = "scatter"
         ELSE /\ pc' = "raised"
              /\ UNCHANGED << bright_stars, marker_size >>
    /\ UNCHANGED << inputs, lines_xy_mod, branches, emitted, ax >>

\* lines 82-84
ScatterStars ==
    /\ pc = "scatter"
    /\ ax' = [ ax EXCEPT !.scatter =
                 [ s \in bright_stars |-> << StarXY(s)[1], StarXY(s)[2], marker_size[s] >> ] ]
    /\ pc' = IF edges = << >> THEN "collection" ELSE "lines"
    /\ UNCHANGED << inputs, bright_stars, marker_size, lines_xy_mod, branches, emitted >>

\* lines 103-111: one iteration
SegmentLine ==
    /\ pc = "lines"
    /\ LET k == Len(branches) + 1
           line == lines_xy(k)
       IN  /\ branches' = Append(branches, Branch(line))
           /\ emitted' = Append(emitted, Segment(line))
           /\ lines_xy_mod' = lines_xy_mod \o Segment(line)
           /\ pc' = IF k = Len(edges) THEN "collection" ELSE "lines"
    /\ UNCHANGED << inputs, bright_stars, marker_size, ax >>

\* lines 113-121
AddCollection ==
    /\ pc = "collection"
    /\ ax' = [ ax EXCEPT !.collection = lines_xy_mod, !.added = TRUE ]
    /\ pc' = "reference"
    /\ UNCHANGED << inputs, bright_stars, marker_size, lines_xy_mod, branches, emitted >>

\* lines 135-149
Reference ==
    /\ pc = "reference"
    /\ IF ecliptic_coords
         THEN /\ ax' = [ ax EXCEPT !.refline = << "axhline", 0 >> ]
              /\ pc' = "bodies"
         ELSE IF "sun" \in eph.keys
                   /\ \A i \in DOMAIN RefOffsets : Covered(RefOffsets[i])
                THEN /\ ax' = [ ax EXCEPT !.refline = << "plot", SortByX(SunPath) >> ]
                     /\ pc' = "bodies"
                ELSE /\ pc' = "raised"
                     /\ UNCHANGED ax
    /\ UNCHANGED << inputs, bright_stars, marker_size, lines_xy_mod, branches, emitted >>

\* lines 152-190
PlotBodies ==
    /\ pc = "bodies"
    /\ LET r == BodiesFrom(1, ax)
       IN  /\ ax' = r.ax
           /\ pc' = IF r.ok THEN "labels" ELSE "raised"
    /\ UNCHANGED << inputs, bright_stars, marker_size, lines_xy_mod, branches, emitted >>

\* lines 192-207
Finish ==
    /\ pc = "labels"
    /\ ax' = [ ax EXCEPT
                 !.xlabel = IF ecliptic_coords THEN "Ecliptic Latitude (degrees)"
                                               ELSE "Right Ascension (hours)",
                 !.ylabel = IF ecliptic_coords THEN "Ecliptic Longitude (degrees)"
                                               ELSE "Declination (degrees)",
                 !.xticks = IF ecliptic_coords THEN << 0, 360, 30 >> ELSE << 0, 24, 2 >> ]
    /\ pc' = "done"
    /\ UNCHANGED << inputs, bright_stars, marker_size, lines_xy_mod, branches, emitted >>

Next ==
    \/ ComputeStars
    \/ ScatterStars
    \/ SegmentLine
    \/ AddCollection
    \/ Reference
    \/ PlotBodies
    \/ Finish

Spec == Init /\ [][Next]_vars

SpecSeg == InitSeg /\ [][Next]_vars

SpecStars == InitStars /\ [][Next]_vars

SpecEph == InitEph /\ [][Next]_vars

---------------------------------------------------------------------------
(* Properties *)

\* end points and the three squared distances of the edge of iteration k
P0(k) == lines_xy(k)[1]

P1(k) == lines_xy(k)[2]

d_plain(k) == DistSq(P0(k), P1(k))

d_shift_right(k) == DistSq(<< P0(k)[1] + x_max, P0(k)[2] >>, P1(k))

d_shift_left(k) == DistSq(P0(k), << P1(k)[1] + x_max, P1(k)[2] >>)

Min2(a, b) == IF a <= b THEN a ELSE b

d_min(k) == Min2(d_plain(k), Min2(d_shift_right(k), d_shift_left(k)))

\* C1: for end-point longitudes in [0, P) the branch an iteration takes is
\* the argmin of the three distances: the first wrap branch only when
\* d_shift_right is the strict minimum, the second only when d_shift_left
\* is, the no-wrap branch only when d_plain is a minimum; the two wrap
\* tests are never both true, so their order does not matter.
WrapMatchesArgmin ==
    \A k \in DOMAIN branches :
        (P0(k)[1] \in 0 .. (x_max - 1) /\ P1(k)[1] \in 0 .. (x_max - 1)) =>
            /\ branches[k] = "right" =>
                   d_shift_right(k) < d_plain(k) /\ d_shift_right(k) < d_shift_left(k)
            /\ branches[k] = "left" =>
                   d_shift_left(k) < d_plain(k) /\ d_shift_left(k) < d_shift_right(k)
            /\ branches[k] = "plain" =>
                   d_plain(k) <= d_shift_right(k) /\ d_plain(k) <= d_shift_left(k)
            /\ ~ (d_shift_right(k) < d_plain(k) /\ d_shift_left(k) < d_plain(k))

WrapRightTaken ==
    \E k \in DOMAIN branches :
        /\ branches[k] = "right"
        /\ P1(k)[1] - P0(k)[1] = (x_max \div 2) + 1

\* C2: a wrapped edge yields exactly two segments, [p0+(P,0), p1] and
\* [p0, p1-(P,0)] when d_shift_right < d_plain, otherwise [p0-(P,0), p1] and
\* [p0, p1+(P,0)] when d_shift_left < d_plain; every end point keeps its
\* latitude and moves by 0, +P or -P in longitude; (359,10)-(2,-5) with
\* P = 360 gives [(-1,10),(2,-5)] and [(359,10),(362,-5)].
WrapEmitsTwoSegments ==
    \A k \in DOMAIN emitted :
        LET p0 == P0(k)
            p1 == P1(k)
            out == emitted[k]
        IN  /\ d_shift_right(k) < d_plain(k) =>
                 out = << << << p0[1] + x_max, p0[2] >>, p1 >>,
                          << p0, << p1[1] - x_max, p1[2] >> >> >>
            /\ (~ (d_shift_right(k) < d_plain(k)) /\ d_shift_left(k) < d_plain(k)) =>
                 out = << << << p0[1] - x_max, p0[2] >>, p1 >>,
                          << p0, << p1[1] + x_max, p1[2] >> >> >>
            /\ \A j \in DOMAIN out :
                 /\ out[j][1][2] = p0[2]
                 /\ out[j][2][2] = p1[2]
                 /\ out[j][1][1] - p0[1] \in { 0, x_max, -x_max }
                 /\ out[j][2][1] - p1[1] \in { 0, x_max, -x_max }
            /\ (ecliptic_coords /\ p0 = << 359, 10 >> /\ p1 = << 2, -5 >>) =>
                 out = << << << -1, 10 >>, << 2, -5 >> >>,
                          << << 359, 10 >>, << 362, -5 >> >> >>

WrapScenarioSegmented ==
    /\ ecliptic_coords
    /\ Len(emitted) = 1
    /\ P0(1) = << 359, 10 >>
    /\ P1(1) = << 2, -5 >>
    /\ Len(emitted[1]) = 2
    /\ ax.collection = emitted[1]

\* C3: when d_plain <= d_shift_right and d_plain <= d_shift_left, ties
\* included, the iteration appends the one segment [p0, p1], unchanged.
NoWrapIdempotent ==
    \A k \in DOMAIN emitted :
        (d_plain(k) <= d_shift_right(k) /\ d_plain(k) <= d_shift_left(k)) =>
            emitted[k] = << << P0(k), P1(k) >> >>

NoWrapTieSegmented ==
    \E k \in DOMAIN emitted :
        /\ d_plain(k) = d_shift_left(k)
        /\ P0(k)[2] # P1(k)[2]
        /\ emitted[k] = << lines_xy(k) >>

\* sqrt(DistSq(s1)) + ... + sqrt(DistSq(sn)) <= sqrt(m), for n <= 2
TotalLengthLeq(segs, m) ==
    LET a == DistSq(segs[1][1], segs[1][2])
        b == DistSq(segs[2][1], segs[2][2])
    IN  IF Len(segs) = 1 THEN a <= m
        ELSE /\ m - a - b >= 0
             /\ 4 * a * b <= (m - a - b) * (m - a - b)

\* C4 as stated: the total length of the segments appended for an edge never
\* exceeds the shortest periodic distance between its end points.
TotalLengthWithinShortest ==
    \A k \in DOMAIN emitted : TotalLengthLeq(emitted[k], d_min(k))

\* C4 as amended: every segment appended for an edge is exactly as long as
\* the shortest periodic distance between its end points; an unwrapped edge
\* appends one such segment and a wrapped edge two, so the total is that
\* distance or twice it.
EachSegmentShortest ==
    \A k \in DOMAIN emitted :
        /\ \A j \in DOMAIN emitted[k] :
             DistSq(emitted[k][j][1], emitted[k][j][2]) = d_min(k)
        /\ Len(emitted[k]) = IF d_min(k) < d_plain(k) THEN 2 ELSE 1

WrappedEdgeDrawnTwice ==
    \E k \in DOMAIN emitted :
        /\ d_min(k) < d_plain(k)
        /\ d_min(k) > 0
        /\ Len(emitted[k]) = 2
        /\ ax.added

IsEndpoint(s) == \E k \in DOMAIN edges : s = edges[k][1] \/ s = edges[k][2]

MonotonicSizing ==
    \A s1 \in DOMAIN marker_size, s2 \in DOMAIN marker_size :
        stars[s1].magnitude < stars[s2].magnitude =>
            marker_size[s1] > marker_size[s2]

Count(s, p) == Cardinality({ i \in DOMAIN s : s[i] = p })

Pieces(c) == { { c[i], c[i + 1] } : i \in 1 .. (Len(c) - 1) }

SegmentedPieces(c) ==
    UNION { { { sg[1], sg[2] } : sg \in { Segment(<< c[i], c[i + 1] >>)[j] :
                                          j \in DOMAIN Segment(<< c[i], c[i + 1] >>) } } :
            i \in 1 .. (Len(c) - 1) }

NoPartialChart == (pc = "raised") => (ax = NoAx)

Abs(n) == IF n < 0 THEN -n ELSE n

\* C9: the arrow of a body runs from position(T) to position(T) plus the
\* raw difference of the two observations, and whenever the body's
\* longitude moves by less than P/2 modulo P between T and T+7, in either
\* direction and also across the wrap boundary, the drawn |lon_delta| is
\* less than P/2.
ArrowWithinHalfPeriod ==
    \A i \in DOMAIN ax.arrows :
        LET a == ax.arrows[i]
            p == observe(a.name, 0)
            q == observe(a.name, Delta)
            forward == (q[1] - p[1]) % x_max
            backward == (p[1] - q[1]) % x_max
        IN  /\ a.xy = p
            /\ a.xytext = << p[1] + (q[1] - p[1]), p[2] + (q[2] - p[2]) >>
            /\ (2 * forward < x_max \/ 2 * backward < x_max) =>
                   2 * Abs(a.xytext[1] - a.xy[1]) < x_max

Quantity(label) ==
    CASE label = "Ecliptic Longitude (degrees)" -> "longitude"
      [] label = "Right Ascension (hours)" -> "longitude"
      [] label = "Ecliptic Latitude (degrees)" -> "latitude"
      [] label = "Declination (degrees)" -> "latitude"
      [] OTHER -> "none"

\* C10: at the end of a build the horizontal axis, which carries the
\* longitudes, is labelled with the longitude-type quantity of the frame and
\* the vertical axis, which carries the latitudes, with the latitude-type one.
AxisLabelsMatchAxes ==
    (pc = "done") =>
        /\ \A s \in DOMAIN ax.scatter :
             ax.scatter[s][1] = stars[s].lon_deg /\ ax.scatter[s][2] = stars[s].lat_deg
        /\ Quantity(ax.xlabel) = "longitude"
        /\ Quantity(ax.ylabel) = "latitude"

====
